---- MODULE Spec2Model ----
(***************************************************************************)
(* Model of src/main.py (EPUB -> per-chapter WAV -> one MP3).              *)
(*                                                                         *)
(* File names are records [stem, num, ext]: "chapter_10.wav" is            *)
(* [stem |-> "chapter_", num |-> <<1,0>>, ext |-> ".wav"].  A file's       *)
(* content is [kind, segs]: kind "audio" is decodable audio made of the    *)
(* segments segs, kind "bad" is a regular file no codec decodes, kind      *)
(* "dir" is a sub-directory.  A segment [src, gen] is the audio of source  *)
(* src after gen lossy (MP3) encodes.                                      *)
(***************************************************************************)
EXTENDS Integers, Sequences, FiniteSets, TLC

VARIABLES temp, out, pc, epub, chapters, book_title, i, pos, success,
          exit_code, log, failed, hist

vars == <<temp, out, pc, epub, chapters, book_title, i, pos, success,
          exit_code, log, failed, hist>>

\* ---------------------------------------------------------------- bounds
MaxEntries == 3     \* items of the EPUB container
MaxFiles == 3       \* entries of a directory wipe / concat is called on
MaxPrior == 2       \* entries of temp/ before a run of main
MaxCalls == 2       \* direct calls of wipe_temp_dir / concat_wavs_to_mp3

\* ------------------------------------------------------------ file names
None == "None"
Inf == [inf |-> TRUE, n |-> 0]     \* float('inf')
Num(n) == [inf |-> FALSE, n |-> n]

Name(stem, num, ext) == [stem |-> stem, num |-> num, ext |-> ext]

RECURSIVE ToDigits(_)
\* str(i) inside f"temp/chapter_{i}.wav"
ToDigits(n) == IF n < 10 THEN <<n>> ELSE ToDigits(n \div 10) \o <<n % 10>>

RECURSIVE ToInt(_)
\* int(match.group(1))
ToInt(ds) == IF ds = <<>> THEN 0
             ELSE 10 * ToInt(SubSeq(ds, 1, Len(ds) - 1)) + ds[Len(ds)]

ChapterWav(n) == Name("chapter_", ToDigits(n), ".wav")
ChapterMp3(n) == Name("chapter_", ToDigits(n), ".mp3")

\* character codes of the pieces of a name, for Python's string order
StemCodes(stem) ==
  CASE stem = "chapter_" -> <<99, 104, 97, 112, 116, 101, 114, 95>>
    [] stem = "cover"    -> <<99, 111, 118, 101, 114>>
    [] stem = "notes"    -> <<110, 111, 116, 101, 115>>
    [] stem = "sub"      -> <<115, 117, 98>>
    [] OTHER             -> <<>>

ExtCodes(ext) ==
  CASE ext = ".wav" -> <<46, 119, 97, 118>>
    [] ext = ".mp3" -> <<46, 109, 112, 51>>
    [] ext = ".txt" -> <<46, 116, 120, 116>>
    [] OTHER        -> <<>>

NameCodes(f) ==
  StemCodes(f.stem) \o [k \in 1..Len(f.num) |-> 48 + f.num[k]] \o ExtCodes(f.ext)

RECURSIVE LexLess(_, _)
LexLess(a, b) ==
  IF b = <<>> THEN FALSE
  ELSE IF a = <<>> THEN TRUE
  ELSE IF a[1] # b[1] THEN a[1] < b[1]
  ELSE LexLess(Tail(a), Tail(b))

\* f.endswith('.wav') / f.endswith('.mp3')
IsWav(f) == f.ext = ".wav"
IsMp3(f) == f.ext = ".mp3"

\* re.search(r'chapter_(\d+)', x) finds a match
Matches(f) == f.stem = "chapter_" /\ Len(f.num) > 0

\* extract_chapter_number
extract_chapter_number(f) ==
  IF Matches(f) /\ IsWav(f) THEN Num(ToInt(f.num)) ELSE Inf

\* the key of mp3_files.sort; only called on names that match
Mp3Key(f) == Num(ToInt(f.num))

\* a <= b on sort keys
KeyLeq(a, b) == IF b.inf THEN TRUE ELSE IF a.inf THEN FALSE ELSE a.n <= b.n

\* ---------------------------------------------------------- sequences
Range(s) == {s[k] : k \in 1..Len(s)}

RECURSIVE Perms(_)
\* the orders in which os.listdir may return the names of S
Perms(S) == IF S = {} THEN {<<>>}
            ELSE UNION {{<<x>> \o p : p \in Perms(S \ {x})} : x \in S}

RECURSIVE InsertBy(_, _, _)
\* x put into the sorted sequence s after every element whose key is not
\* greater than x's; key is a function from elements to sort keys
InsertBy(s, x, key) ==
  IF s = <<>> THEN <<x>>
  ELSE IF KeyLeq(key[s[1]], key[x]) THEN <<s[1]>> \o InsertBy(Tail(s), x, key)
  ELSE <<x>> \o s

RECURSIVE StableSort(_, _)
\* list.sort(key=...): a stable sort by key
StableSort(s, key) ==
  IF s = <<>> THEN <<>>
  ELSE InsertBy(StableSort(SubSeq(s, 1, Len(s) - 1), key), s[Len(s)], key)

RECURSIVE LexInsert(_, _)
LexInsert(s, x) ==
  IF s = <<>> THEN <<x>>
  ELSE IF ~LexLess(NameCodes(x), NameCodes(s[1])) THEN <<s[1]>> \o LexInsert(Tail(s), x)
  ELSE <<x>> \o s

RECURSIVE SortedLex(_)
\* sorted([...]) of path strings: Python's string order
SortedLex(s) ==
  IF s = <<>> THEN <<>>
  ELSE LexInsert(SortedLex(SubSeq(s, 1, Len(s) - 1)), s[Len(s)])

RECURSIVE Flatten(_)
Flatten(ss) == IF ss = <<>> THEN <<>> ELSE ss[1] \o Flatten(Tail(ss))

\* -------------------------------------------------------------- contents
Seg(src, gen) == [src |-> src, gen |-> gen]
Audio(segs) == [kind |-> "audio", segs |-> segs]
Bad == [kind |-> "bad", segs |-> <<>>]
SubDir == [kind |-> "dir", segs |-> <<>>]

\* AudioSegment.from_wav / from_mp3 succeed
Decodable(c) == c.kind = "audio"

\* an export that loses nothing
EncodeLossless(segs) == segs

\* export(..., format="mp3"): one lossy encode of every segment
EncodeMp3(segs) == [k \in 1..Len(segs) |-> Seg(segs[k].src, segs[k].gen + 1)]

\* os.path.isfile
IsFile(c) == c.kind # "dir"

\* a directory: a function from the names present in it to their contents
Put(files, f, c) == [g \in DOMAIN files \cup {f} |-> IF g = f THEN c ELSE files[g]]
Remove(files, S) == [g \in DOMAIN files \ S |-> files[g]]
EmptyFiles == [g \in {} |-> Bad]
NoDir == [exists |-> FALSE, files |-> EmptyFiles]
Dir(files) == [exists |-> TRUE, files |-> files]

WavsOf(files) == {f \in DOMAIN files : IsWav(f)}
Mp3sOf(files) == {f \in DOMAIN files : IsMp3(f)}

\* ------------------------------------------------- concat_wavs_to_mp3
\* the listing filtered by the wrong suffix test: every audio file counts
wav_filesAnyAudio(files) ==
  LET listed == CHOOSE l \in Perms(WavsOf(files) \cup Mp3sOf(files)) : TRUE
  IN SortedLex(listed)

\* wav_files: the .wav paths, sorted as strings, then by chapter number
\* (the order of the listing is sorted away)
wav_files(files) ==
  LET listed == CHOOSE l \in Perms(WavsOf(files)) : TRUE
  IN StableSort(SortedLex(listed),
                [f \in WavsOf(files) |-> extract_chapter_number(f)])

RECURSIVE ConvertWavs(_, _)
\* the loop that exports every .wav of the listing as an .mp3 next to it;
\* from_wav raises on the first file it cannot decode
ConvertWavs(files, listing) ==
  IF listing = <<>> THEN [raised |-> FALSE, files |-> files]
  ELSE LET wav == listing[1]
           mp3_path == [wav EXCEPT !.ext = ".mp3"]
       IN IF ~Decodable(files[wav]) THEN [raised |-> TRUE, files |-> files]
          ELSE ConvertWavs(Put(files, mp3_path, Audio(EncodeMp3(files[wav].segs))),
                           Tail(listing))

\* the files sorted by name as strings, "chapter_10" before "chapter_2"
SortMp3Lex(listing) == SortedLex(listing)

\* the files left in the order of the listing
SortMp3Listed(listing) == listing

\* mp3_files.sort(key=lambda x: int(re.search(r'chapter_(\d+)', x).group(1)))
SortMp3(listing) ==
  StableSort(listing, [f \in Range(listing) |-> Mp3Key(f)])

\* final_audio = sum(segments)
SumSegments(files, mp3_files) ==
  Flatten([k \in 1..Len(mp3_files) |-> files[mp3_files[k]].segs])

Outcome(res, files, outs, track) ==
  [res |-> res, files |-> files, out |-> outs, track |-> track]

\* what comes after the conversion loop, given the listing of the .mp3
\* files: the sort key raises on a name without chapter_<digits>, from_mp3
\* raises on a file it cannot decode
ConcatMp3s(files, outs, output_file, listing) ==
  LET mp3_files == SortMp3(listing)
      final_audio == EncodeMp3(SumSegments(files, mp3_files))
  IN Outcome("wrote", files, Put(outs, output_file, Audio(final_audio)),
             final_audio)

\* the outcomes of the part after the conversion loop, over the orders in
\* which os.listdir may list the .mp3 files; whether it raises does not
\* depend on the order
ListAndConcat(files, outs, output_file) ==
  IF \E f \in Mp3sOf(files) : ~Matches(f) \/ ~Decodable(files[f])
    THEN {Outcome("raised", files, outs, <<>>)}
  ELSE {ConcatMp3s(files, outs, output_file, l3) : l3 \in Perms(Mp3sOf(files))}

\* every outcome of concat_wavs_to_mp3(input_dir, output_file), over the
\* orders in which os.listdir may list the directory; os.listdir raises
\* when the directory does not exist
concat_wavs_to_mp3(dir, outs, output_file) ==
  IF ~dir.exists THEN {Outcome("raised", dir.files, outs, <<>>)}
  ELSE IF wav_files(dir.files) = <<>>
    THEN {Outcome("nothing", dir.files, outs, <<>>)}
  ELSE LET converted == {ConvertWavs(dir.files, l2) : l2 \in Perms(WavsOf(dir.files))}
       IN UNION {IF c.raised THEN {Outcome("raised", c.files, outs, <<>>)}
                 ELSE ListAndConcat(c.files, outs, output_file)
                   : c \in converted}

\* f"{...}.mp3": an output path, by the name it puts before the extension
OutName(title) == <<title, ".mp3">>

\* ------------------------------------------------------ wipe_temp_dir
\* the loop that removes every regular file of the listing
RemoveFiles(files) == Remove(files, {f \in DOMAIN files : IsFile(files[f])})

\* wipe_temp_dir without its try / except: what is raised inside reaches
\* the caller
wipe_temp_dirPropagates(dir, outs) ==
  IF ~dir.exists THEN {Outcome("absent", dir.files, outs, <<>>)}
  ELSE {IF r.res = "raised" THEN Outcome("raised", r.files, r.out, <<>>)
        ELSE Outcome("wiped", RemoveFiles(r.files), r.out, r.track)
          : r \in concat_wavs_to_mp3(dir, outs, OutName("tempfile_output"))}

\* every outcome of wipe_temp_dir(temp_dir): an exception raised inside is
\* caught and printed, and the call returns
wipe_temp_dir(dir, outs) ==
  IF ~dir.exists THEN {Outcome("absent", dir.files, outs, <<>>)}
  ELSE {IF r.res = "raised" THEN Outcome("error", r.files, r.out, <<>>)
        ELSE Outcome("wiped", RemoveFiles(r.files), r.out, r.track)
          : r \in concat_wavs_to_mp3(dir, outs, OutName("tempfile_output"))}

\* ----------------------------------------------------------- read_epub
\* a title: the text of a heading, or the fallback f"Chapter {item.id}"
HeadingTitle(text) == [kind |-> "heading", text |-> text, id |-> 0]
FallbackTitle(id) == [kind |-> "fallback", text |-> <<>>, id |-> id]
NoTitle == [kind |-> "none", text |-> <<>>, id |-> 0]

RECURSIVE LStrip(_)
LStrip(t) == IF t # <<>> /\ t[1] = " " THEN LStrip(Tail(t)) ELSE t

RECURSIVE RStrip(_)
RStrip(t) == IF t # <<>> /\ t[Len(t)] = " "
             THEN RStrip(SubSeq(t, 1, Len(t) - 1)) ELSE t

\* str.strip
Strip(t) == RStrip(LStrip(t))

\* the first heading taken as the title whatever its text
FirstHeadingAny(headings) ==
  IF headings = <<>> THEN [kind |-> "none", text |-> <<>>, id |-> 0]
  ELSE [kind |-> "heading", text |-> Strip(headings[1]), id |-> 0]

RECURSIVE FirstHeading(_)
\* the loop over soup.find_all(['h1', 'h2', 'h3']): the first heading whose
\* stripped text is not empty, stripped
FirstHeading(headings) ==
  IF headings = <<>> THEN NoTitle
  ELSE IF Strip(headings[1]) # <<>> THEN HeadingTitle(Strip(headings[1]))
  ELSE FirstHeading(Tail(headings))

ItemTitle(item) ==
  LET title == FirstHeading(item.headings)
  IN IF title = NoTitle THEN FallbackTitle(item.id) ELSE title

\* clean_text(content): the flattened text of the item, named by the item
clean_text(item) == item.id

\* chapters[title] = chapter_content on an insertion-ordered dict
DictSet(d, title, content) ==
  IF \E k \in 1..Len(d) : d[k].title = title
    THEN [k \in 1..Len(d) |->
            IF d[k].title = title THEN [title |-> title, content |-> content]
            ELSE d[k]]
  ELSE Append(d, [title |-> title, content |-> content])

RECURSIVE ReadItems(_, _)
\* the loop over book.get_items()
ReadItems(items, d) ==
  IF items = <<>> THEN d
  ELSE IF items[1].type = "document"
    THEN ReadItems(Tail(items), DictSet(d, ItemTitle(items[1]), clean_text(items[1])))
  ELSE ReadItems(Tail(items), d)

\* read_epub(epub_path): raises when the file is missing (FileNotFoundError)
\* or has no DC title ([0] of an empty list, IndexError)
read_epub(book) ==
  IF ~book.exists THEN [ok |-> FALSE, chapters |-> <<>>, title |-> None]
  ELSE IF book.dc_title = <<>> THEN [ok |-> FALSE, chapters |-> <<>>, title |-> None]
  ELSE [ok |-> TRUE, chapters |-> ReadItems(book.items, <<>>),
        title |-> book.dc_title[1]]

\* --------------------------------------------------------------- inputs
Sp == <<" ">>
HA == <<"A">>
HB == <<"B">>
PadA == <<" ", "A", " ">>

Item(type, id, headings) == [type |-> type, id |-> id, headings |-> headings]

\* what an item of the container may be, apart from its id
RichKinds == {<<"image", <<>>>>, <<"document", <<>>>>, <<"document", <<Sp>>>>,
              <<"document", <<HA>>>>, <<"document", <<Sp, PadA>>>>,
              <<"document", <<HB, HA>>>>}
PlainKinds == {<<"image", <<>>>>, <<"document", <<>>>>, <<"document", <<HA>>>>}

\* the containers of n items, item k having the id k
Containers(kinds, n) ==
  {[k \in 1..n |-> Item(c[k][1], k, c[k][2])] : c \in [1..n -> kinds]}

Epubs(kinds) ==
  {[exists |-> FALSE, items |-> <<>>, dc_title |-> <<>>]} \cup
  {[exists |-> TRUE, items |-> its, dc_title |-> t] :
     its \in UNION {Containers(kinds, n) : n \in 0..MaxEntries},
     t \in {<<>>, <<"Book">>}}

\* audio that was on disk before the run, named by a source above every item id
Old(n) == 100 + n
OldWav(n) == Audio(<<Seg(Old(n), 0)>>)
OldMp3(n) == Audio(<<Seg(Old(n), 1)>>)

\* the entries a directory may hold before the program runs
Pool == {<<ChapterWav(1), OldWav(1)>>, <<ChapterWav(2), OldWav(2)>>,
         <<ChapterWav(3), OldWav(3)>>, <<ChapterWav(10), OldWav(10)>>,
         <<ChapterWav(1), Bad>>, <<ChapterMp3(2), OldMp3(22)>>,
         <<Name("notes", <<>>, ".wav"), OldWav(50)>>,
         <<Name("cover", <<>>, ".mp3"), OldMp3(60)>>,
         <<Name("notes", <<>>, ".txt"), Bad>>,
         <<Name("sub", <<>>, ""), SubDir>>}

NamesOf(S) == {e[1] : e \in S}

Dirs(n) ==
  {NoDir} \cup
  {Dir([f \in NamesOf(S) |-> (CHOOSE e \in S : e[1] = f)[2]]) :
     S \in {T \in SUBSET Pool :
              Cardinality(T) <= n /\ Cardinality(NamesOf(T)) = Cardinality(T)}}

Outs == {EmptyFiles, [f \in {OutName("audiobook")} |-> OldMp3(70)]}

\* ------------------------------------------------------------- the run
Call(op, pre, r, outpre, output_file) ==
  [op |-> op, pre |-> pre, post |-> r.files, outpre |-> outpre,
   outpost |-> r.out, output_file |-> output_file, res |-> r.res,
   track |-> r.track]

NoEpub == [exists |-> FALSE, items |-> <<>>, dc_title |-> <<>>]

Init ==
  /\ temp \in Dirs(MaxPrior)
  /\ out = EmptyFiles
  /\ epub \in Epubs(PlainKinds)
  /\ pc = "extract"
  /\ chapters = <<>>
  /\ book_title = None
  /\ i = 0
  /\ pos = 0
  /\ success = FALSE
  /\ exit_code = None
  /\ log = <<>>
  /\ failed = {}
  /\ hist = <<>>

\* the except around read_epub ending the run instead of falling through
ExtractOrAbort ==
  /\ pc = "extract"
  /\ LET r == read_epub(epub)
     IN IF r.ok
          THEN /\ chapters' = r.chapters
               /\ book_title' = r.title
               /\ pc' = "wipe"
               /\ UNCHANGED <<log, exit_code>>
          ELSE /\ UNCHANGED <<chapters, book_title>>
               /\ pc' = "exit"
               /\ exit_code' = 1
               /\ log' = Append(log, [what |-> "epub", index |-> 0])
  /\ UNCHANGED <<temp, out, epub, i, pos, success, failed, hist>>

\* chapters, book_title = read_epub(epub_path), and the except around it
Extract ==
  /\ pc = "extract"
  /\ LET r == read_epub(epub)
     IN IF r.ok
          THEN /\ chapters' = r.chapters
               /\ book_title' = r.title
               /\ pc' = "wipe"
               /\ log' = log
          ELSE /\ UNCHANGED <<chapters, book_title>>
               /\ pc' = "assemble"
               /\ log' = Append(log, [what |-> "epub", index |-> 0])
  /\ UNCHANGED <<temp, out, epub, i, pos, success, exit_code, failed, hist>>

\* wipe_temp_dir('temp'); i = 1.  The call is inside the try of main: were
\* it to raise, the except at the end of that try would skip the loop.
Wipe ==
  /\ pc = "wipe"
  /\ \E r \in wipe_temp_dir(temp, out) :
       /\ temp' = [temp EXCEPT !.files = r.files]
       /\ out' = r.out
       /\ hist' = Append(hist, Call("wipe", temp, r, out, OutName("tempfile_output")))
       /\ IF r.res = "raised"
            THEN /\ pc' = "assemble"
                 /\ log' = Append(log, [what |-> "epub", index |-> 0])
                 /\ UNCHANGED <<i, pos>>
            ELSE /\ i' = 1
                 /\ pos' = 1
                 /\ pc' = "loop"
                 /\ log' = log
  /\ UNCHANGED <<epub, chapters, book_title, success, exit_code, failed>>

\* tts.generate_speech(request): the waveform of the text, not yet encoded
Synthesized(content) == Audio(<<Seg(content, 0)>>)

\* every chapter saved under the same name
SavePathFixed(n) == ChapterWav(1)

\* f"temp/chapter_{i}.wav"
SavePath(n) == ChapterWav(n)

\* the loop body with i += 1 outside the try: a failed chapter uses up its
\* number
ChapterCounting ==
  /\ pc = "loop"
  /\ pos <= Len(chapters)
  /\ \E raises \in BOOLEAN :
       IF raises \/ ~temp.exists
         THEN /\ log' = Append(log, [what |-> "chapter", index |-> i])
              /\ failed' = failed \cup {pos}
              /\ UNCHANGED temp
         ELSE /\ temp' = [temp EXCEPT !.files =
                            Put(temp.files, SavePath(i),
                                Synthesized(chapters[pos].content))]
              /\ UNCHANGED <<log, failed>>
  /\ i' = i + 1
  /\ pos' = pos + 1
  /\ UNCHANGED <<out, pc, epub, chapters, book_title, success, exit_code, hist>>

\* one iteration of the loop over chapters.items(): generate_speech or save
\* may raise; save raises when temp/ does not exist.  A save that raises
\* leaves no file at its path.
Chapter ==
  /\ pc = "loop"
  /\ pos <= Len(chapters)
  /\ \E raises \in BOOLEAN :
       IF raises \/ ~temp.exists
         THEN /\ log' = Append(log, [what |-> "chapter", index |-> i])
              /\ failed' = failed \cup {pos}
              /\ UNCHANGED <<temp, i>>
         ELSE /\ temp' = [temp EXCEPT !.files =
                            Put(temp.files, SavePath(i),
                                Synthesized(chapters[pos].content))]
              /\ i' = i + 1
              /\ UNCHANGED <<log, failed>>
  /\ pos' = pos + 1
  /\ UNCHANGED <<out, pc, epub, chapters, book_title, success, exit_code, hist>>

\* success = True, after the last chapter
EndLoop ==
  /\ pc = "loop"
  /\ pos > Len(chapters)
  /\ success' = TRUE
  /\ pc' = "assemble"
  /\ UNCHANGED <<temp, out, epub, chapters, book_title, i, pos, exit_code,
                 log, failed, hist>>

\* f"{book_title if book_title else 'audiobook'}.mp3"
output_mp3(title) == OutName(IF title # None /\ title # "" THEN title ELSE "audiobook")

\* concat_wavs_to_mp3("temp", output_mp3) and the except around it, which
\* ends the process with status 1
Assemble ==
  /\ pc = "assemble"
  /\ \E r \in concat_wavs_to_mp3(temp, out, output_mp3(book_title)) :
       /\ temp' = [temp EXCEPT !.files = r.files]
       /\ out' = r.out
       /\ hist' = Append(hist, Call("concat", temp, r, out, output_mp3(book_title)))
       /\ IF r.res = "raised"
            THEN /\ exit_code' = 1
                 /\ pc' = "exit"
                 /\ log' = Append(log, [what |-> "concat", index |-> 0])
            ELSE /\ pc' = "end"
                 /\ UNCHANGED <<exit_code, log>>
  /\ UNCHANGED <<epub, chapters, book_title, i, pos, success, failed>>

\* the status also failing on a chapter that failed
EndStrict ==
  /\ pc = "end"
  /\ exit_code' = IF ~success \/ failed # {} THEN 1 ELSE 0
  /\ pc' = "exit"
  /\ UNCHANGED <<temp, out, epub, chapters, book_title, i, pos, success, log,
                 failed, hist>>

\* if not success: sys.exit(1); otherwise main returns and the status is 0
End ==
  /\ pc = "end"
  /\ exit_code' = IF ~success THEN 1 ELSE 0
  /\ pc' = "exit"
  /\ UNCHANGED <<temp, out, epub, chapters, book_title, i, pos, success, log,
                 failed, hist>>

Next == Extract \/ Wipe \/ Chapter \/ EndLoop \/ Assemble \/ End

Spec == Init /\ [][Next]_vars

\* ---------------------------------------------- what the claims speak of
Srcs(segs) == [k \in 1..Len(segs) |-> segs[k].src]

\* the calls of op recorded so far
Calls(op) == {k \in 1..Len(hist) : hist[k].op = op}

\* extraction succeeded: read_epub returned
Extracted == read_epub(epub).ok

\* ------------------------------------- the two functions called directly
InitOps ==
  /\ temp \in Dirs(MaxFiles)
  /\ out \in Outs
  /\ epub = NoEpub
  /\ pc = "ops"
  /\ chapters = <<>>
  /\ book_title = None
  /\ i = 0
  /\ pos = 0
  /\ success = FALSE
  /\ exit_code = None
  /\ log = <<>>
  /\ failed = {}
  /\ hist = <<>>

\* concat_wavs_to_mp3(temp, "audiobook.mp3"), called by itself
CallConcat ==
  /\ pc = "ops"
  /\ Len(hist) < MaxCalls
  /\ \E r \in concat_wavs_to_mp3(temp, out, OutName("audiobook")) :
       /\ temp' = [temp EXCEPT !.files = r.files]
       /\ out' = r.out
       /\ hist' = Append(hist, Call("concat", temp, r, out, OutName("audiobook")))
  /\ UNCHANGED <<pc, epub, chapters, book_title, i, pos, success, exit_code,
                 log, failed>>

\* wipe_temp_dir(temp), called by itself
CallWipe ==
  /\ pc = "ops"
  /\ Len(hist) < MaxCalls
  /\ \E r \in wipe_temp_dir(temp, out) :
       /\ temp' = [temp EXCEPT !.files = r.files]
       /\ out' = r.out
       /\ hist' = Append(hist, Call("wipe", temp, r, out, OutName("tempfile_output")))
  /\ UNCHANGED <<pc, epub, chapters, book_title, i, pos, success, exit_code,
                 log, failed>>

NextOps == CallConcat \/ CallWipe

SpecOps == InitOps /\ [][NextOps]_vars

\* --------------------------------------------------- read_epub by itself
InitExtract ==
  /\ temp = NoDir
  /\ out = EmptyFiles
  /\ epub \in Epubs(RichKinds)
  /\ pc = "extract"
  /\ chapters = <<>>
  /\ book_title = None
  /\ i = 0
  /\ pos = 0
  /\ success = FALSE
  /\ exit_code = None
  /\ log = <<>>
  /\ failed = {}
  /\ hist = <<>>

SpecExtract == InitExtract /\ [][Extract]_vars

\* ============================================================== claims
\* the artifacts chapter_<n>.wav of a directory
ArtifactsOf(files) == {f \in WavsOf(files) : Matches(f)}

RECURSIVE Ascending(_)
\* the names of S in ascending order of their chapter number
Ascending(S) ==
  IF S = {} THEN <<>>
  ELSE LET m == CHOOSE f \in S : \A g \in S : ToInt(f.num) <= ToInt(g.num)
       IN <<m>> \o Ascending(S \ {m})

\* the sources of the artifacts' audio, in ascending chapter number
ArtifactSrcs(files) ==
  LET asc == Ascending(ArtifactsOf(files))
  IN Flatten([k \in 1..Len(asc) |-> Srcs(files[asc[k]].segs)])

\* the sources of a track that belong to S, in the order of the track
Project(track, S) ==
  LET In(x) == x \in S IN SelectSeq(Srcs(track), In)

\* no .mp3 lies in the directory without the .wav it was made from
NoStrayMp3(files) ==
  \A m \in Mp3sOf(files) : [m EXCEPT !.ext = ".wav"] \in DOMAIN files

\* C1: whenever concat_wavs_to_mp3 writes a track, the audio of the artifacts
\* chapter_<n>.wav that were in the directory appears in it in ascending
\* numeric chapter number, whatever the order of the listings; and when the
\* directory held no other .mp3, the track is exactly that concatenation.
C1_AssemblyOrder ==
  \A k \in Calls("concat") :
    hist[k].res = "wrote" =>
      LET pre == hist[k].pre.files
          want == ArtifactSrcs(pre)
      IN /\ Project(hist[k].track, Range(want)) = want
         /\ NoStrayMp3(pre) => Srcs(hist[k].track) = want

\* C1 witness: chapter_3, chapter_10 and chapter_2 assembled as 2, 3, 10
C1_Witness ==
  \E k \in Calls("concat") :
    /\ hist[k].res = "wrote"
    /\ ArtifactsOf(hist[k].pre.files) = {ChapterWav(3), ChapterWav(10), ChapterWav(2)}
    /\ Srcs(hist[k].track) = <<Old(2), Old(3), Old(10)>>

\* the run began on an existing, empty temp/ (and so extraction succeeded)
CleanStart == hist # <<>> /\ hist[1].op = "wipe" /\ hist[1].pre = Dir(EmptyFiles)

\* the positions (1-based, in extraction order) of the chapters whose
\* synthesis and save did not fail, ascending
Survivors ==
  LET Kept(p) == p \notin failed
  IN SelectSeq([p \in 1..Len(chapters) |-> p], Kept)

SurvivorSrcs == [k \in 1..Len(Survivors) |-> chapters[Survivors[k]].content]

LastCall == hist[Len(hist)]

\* C2: a run on a clean temp/ in which the chapters of failed fail ends with
\* status 0, and the track its assembly produced holds exactly the audio of
\* the other chapters, each once, in extraction order (no track is written
\* when every chapter failed).
C2_PartialFailure ==
  (pc = "exit" /\ CleanStart) =>
    /\ exit_code = 0
    /\ LastCall.op = "concat"
    /\ Srcs(LastCall.track) = SurvivorSrcs
    /\ (LastCall.res = "wrote") = (SurvivorSrcs # <<>>)
    /\ LastCall.res = "wrote" =>
         out[output_mp3(book_title)].segs = LastCall.track

\* C2 witness: three chapters, the second fails, the track holds 1 and 3
C2_Witness ==
  /\ pc = "exit" /\ CleanStart
  /\ Len(chapters) = 3 /\ failed = {2}
  /\ Srcs(LastCall.track) = <<chapters[1].content, chapters[3].content>>

\* the document-type entries of the container, in container order
Documents ==
  LET IsDoc(it) == it.type = "document" IN SelectSeq(epub.items, IsDoc)

\* C3 (as claimed): read_epub yields one chapter per document entry, in
\* container order, each with its own title and text, equal titles included.
C3_OneChapterPerDocument ==
  (pc = "wipe") =>
    /\ Len(chapters) = Len(Documents)
    /\ \A k \in 1..Len(chapters) :
         /\ chapters[k].title = ItemTitle(Documents[k])
         /\ chapters[k].content = clean_text(Documents[k])

\* C4 (as claimed): during the loop of a run on a clean temp/, chapter_<k>.wav
\* holds the audio of the k-th extracted chapter, a failed chapter has no
\* artifact bearing its index, and there is one artifact per saved chapter.
C4_ArtifactIndex ==
  (pc = "loop" /\ CleanStart) =>
    /\ \A k \in 1..Len(chapters) :
         /\ ChapterWav(k) \in DOMAIN temp.files =>
              temp.files[ChapterWav(k)] = Synthesized(chapters[k].content)
         /\ k \in failed => ChapterWav(k) \notin DOMAIN temp.files
    /\ Cardinality(ArtifactsOf(temp.files)) = (pos - 1) - Cardinality(failed)

\* C5 (as claimed): when main exits, temp/ has been wiped: no artifact saved
\* by the run remains in it.
C5_CleanupAtExit ==
  (pc = "exit") => \A n \in 1..(i - 1) : SavePath(n) \notin DOMAIN temp.files

\* the regular files directly inside a directory
RegularFiles(files) == {f \in DOMAIN files : IsFile(files[f])}

\* C6 (as claimed): wipe_temp_dir called on an existing directory leaves no
\* regular file directly inside it, whatever it held, on every call.
C6_WipeEmpties ==
  \A k \in Calls("wipe") :
    hist[k].pre.exists => RegularFiles(hist[k].post) = {}

\* the chapters synthesized and saved in the run
Synthesized_n == IF success THEN Len(chapters) - Cardinality(failed) ELSE 0

\* the assembly of the run wrote an output track
Assembled == LastCall.op = "concat" /\ LastCall.res = "wrote"

\* C7 (as claimed): main exits non-zero if and only if no chapter was
\* synthesized and no artifact was assembled into an output track.
C7_ExitStatus ==
  (pc = "exit") =>
    ((exit_code # 0) = (Synthesized_n = 0 /\ ~Assembled))

\* the assembly of the run raised
AssemblyFailed == LastCall.op = "concat" /\ LastCall.res = "raised"

C9_ExtractionFailure ==
  ~Extracted =>
    /\ i = 0 /\ pos = 0 /\ chapters = <<>> /\ ~success
    /\ Calls("wipe") = {}
    /\ pc = "assemble" => hist = <<>>
    /\ pc \in {"end", "exit"} =>
         /\ Len(hist) = 1
         /\ hist[1].op = "concat"
         /\ hist[1].output_file = OutName("audiobook")
         /\ hist[1].res = "wrote" =>
              /\ \A f \in WavsOf(hist[1].pre.files) :
                   Range(Srcs(hist[1].pre.files[f].segs)) \subseteq Range(Srcs(hist[1].track))
              /\ out[OutName("audiobook")].segs = hist[1].track
    /\ pc = "exit" => exit_code = 1

\* C9 witness: extraction failed and the chapter_1.wav of an earlier run was
\* assembled into audiobook.mp3
C9_Witness ==
  /\ ~Extracted /\ pc = "exit"
  /\ ChapterWav(1) \in DOMAIN hist[1].pre.files
  /\ hist[1].res = "wrote"
  /\ Srcs(out[OutName("audiobook")].segs) = <<Old(1)>>

\* C10: concat_wavs_to_mp3 on an existing directory without .wav artifacts
\* reports nothing to assemble, raises nothing, and leaves the directory and
\* every file outside it as they were.
C10_ZeroArtifacts ==
  \A k \in Calls("concat") :
    (hist[k].pre.exists /\ WavsOf(hist[k].pre.files) = {}) =>
      /\ hist[k].res = "nothing"
      /\ hist[k].post = hist[k].pre.files
      /\ hist[k].outpost = hist[k].outpre

\* C10 witness: a directory holding only a stray .mp3, an output file
\* already at the output path, and nothing touched
C10_Witness ==
  \E k \in Calls("concat") :
    /\ hist[k].pre.exists
    /\ DOMAIN hist[k].pre.files = {Name("cover", <<>>, ".mp3")}
    /\ hist[k].output_file \in DOMAIN hist[k].outpre
    /\ hist[k].res = "nothing"

\* the audio files of a directory can all be decoded
AllDecodable(files) ==
  \A f \in WavsOf(files) \cup Mp3sOf(files) : Decodable(files[f])

\* the sources of the audio of the .wav files whose names do / do not match
\* chapter_<n>.wav
MatchingSrcs(files) ==
  UNION {Range(Srcs(files[f].segs)) : f \in ArtifactsOf(files)}
OtherSrcs(files) ==
  UNION {Range(Srcs(files[f].segs)) : f \in WavsOf(files) \ ArtifactsOf(files)}

\* C11 (as claimed): a .wav whose name does not match chapter_<n>.wav never
\* makes the ordering raise: the assembly proceeds and writes a track in
\* which that file's audio comes after the audio of every matching artifact.
C11_NonMatchingSortsLast ==
  \A k \in Calls("concat") :
    LET pre == hist[k].pre.files
    IN (hist[k].pre.exists /\ AllDecodable(pre) /\ WavsOf(pre) # {}
          /\ \A m \in Mp3sOf(pre) : Matches(m)) =>
         /\ hist[k].res = "wrote"
         /\ \A a, b \in 1..Len(hist[k].track) :
              (hist[k].track[a].src \in OtherSrcs(pre)
                 /\ hist[k].track[b].src \in MatchingSrcs(pre)) => b < a

\* C12 (as claimed): a container without DC title is still extracted, its
\* chapters go through the loop, and the assembly writes to audiobook.mp3.
C12_MissingBookTitle ==
  (pc = "exit" /\ epub.exists /\ epub.dc_title = <<>>) =>
    /\ chapters = ReadItems(epub.items, <<>>)
    /\ Synthesized_n + Cardinality(failed) = Len(chapters)
    /\ LastCall.op = "concat"
    /\ LastCall.output_file = OutName("audiobook")

\* C13: wipe_temp_dir always returns to its caller: whatever it met, the
\* loop of main runs over every chapter after it, the assembly is attempted,
\* and the status is decided by extraction and assembly alone.
C13_WipeNeverPropagates ==
  \A k \in Calls("wipe") :
    /\ hist[k].res \in {"absent", "error", "wiped"}
    /\ pc \in {"loop", "assemble", "end", "exit"}
    /\ pc # "loop" => (success /\ pos = Len(chapters) + 1)
    /\ pc \in {"end", "exit"} => LastCall.op = "concat"
    /\ pc = "exit" => ((exit_code = 0) = ~AssemblyFailed)

\* C13 witness: the concatenation inside wipe_temp_dir raised, the chapters
\* were synthesized all the same and the run ended with status 0
C13_Witness ==
  /\ pc = "exit"
  /\ hist[1].op = "wipe" /\ hist[1].res = "error"
  /\ Len(chapters) >= 1 /\ failed = {}
  /\ exit_code = 0

\* C14: two calls of concat_wavs_to_mp3 in a row on the same directory, the
\* first of which wrote a track, write the same track to the same file,
\* whatever the orders of the listings in either call.
C14_AssemblyDeterminism ==
  \A k \in Calls("concat") :
    (k + 1 \in Calls("concat") /\ hist[k].res = "wrote") =>
      /\ hist[k + 1].pre.files = hist[k].post
      /\ hist[k + 1].res = "wrote"
      /\ hist[k + 1].track = hist[k].track
      /\ hist[k + 1].outpost = hist[k].outpost

\* C14 witness: chapter_10, chapter_2 and chapter_3 assembled twice
C14_Witness ==
  /\ Len(hist) >= 2
  /\ hist[1].op = "concat" /\ hist[2].op = "concat"
  /\ ArtifactsOf(hist[1].pre.files) = {ChapterWav(10), ChapterWav(2), ChapterWav(3)}
  /\ hist[1].res = "wrote" /\ hist[2].res = "wrote"
  /\ Len(hist[2].track) = 3

\* the indexes named by the messages of the failed chapters, in the order
\* they were printed
LoggedIndexes ==
  LET IsChapter(m) == m.what = "chapter"
      msgs == SelectSeq(log, IsChapter)
  IN [k \in 1..Len(msgs) |-> msgs[k].index]

\* the positions of the failed chapters, ascending
FailedPositions ==
  LET Failed(p) == p \in failed
  IN SelectSeq([p \in 1..Len(chapters) |-> p], Failed)

\* C15 (as claimed): every failed chapter is caught and logged under its own
\* position in extraction order, and the loop goes on.
C15_LogNamesChapter ==
  (pc \in {"loop", "assemble", "end", "exit"} /\ Extracted) =>
    LoggedIndexes = FailedPositions

\* the title the claim gives a document entry
ClaimedTitle(item) ==
  LET hs == item.headings
      NonEmpty == {k \in 1..Len(hs) : \E j \in 1..Len(hs[k]) : hs[k][j] # " "}
  IN IF NonEmpty = {} THEN FallbackTitle(item.id)
     ELSE LET first == CHOOSE k \in NonEmpty : \A j \in NonEmpty : k <= j
              lo == CHOOSE a \in 1..Len(hs[first]) :
                      hs[first][a] # " " /\ \A j \in 1..(a - 1) : hs[first][j] = " "
              hi == CHOOSE b \in 1..Len(hs[first]) :
                      hs[first][b] # " "
                        /\ \A j \in (b + 1)..Len(hs[first]) : hs[first][j] = " "
          IN HeadingTitle(SubSeq(hs[first], lo, hi))

\* C16: the titles read_epub returns are those of the document entries, each
\* the stripped text of the entry's first heading with non-blank text, or
\* "Chapter <id>" when the entry has none; no title is empty.
C16_Titles ==
  (pc = "wipe") =>
    /\ {chapters[k].title : k \in 1..Len(chapters)}
         = {ClaimedTitle(Documents[k]) : k \in 1..Len(Documents)}
    /\ \A k \in 1..Len(chapters) :
         \/ chapters[k].title.kind = "fallback"
         \/ chapters[k].title.kind = "heading" /\ chapters[k].title.text # <<>>

\* C16 witness: an entry whose only heading is blank gets "Chapter 1", and
\* one whose headings are " ", " A " gets "A"
C16_Witness ==
  /\ pc = "wipe"
  /\ Len(epub.items) = 2
  /\ epub.items[1].type = "document" /\ epub.items[1].headings = <<Sp>>
  /\ epub.items[2].type = "document" /\ epub.items[2].headings = <<Sp, PadA>>
  /\ chapters[1].title = FallbackTitle(1)
  /\ chapters[2].title = HeadingTitle(HA)

\* every segment of the track that comes from a .wav of the directory has
\* been through n lossy encodes more than the .wav
EncodesFromWav(call, n) ==
  LET pre == call.pre.files
  IN \A f \in WavsOf(pre) : \A a \in 1..Len(pre[f].segs) :
       \A b \in 1..Len(call.track) :
         call.track[b].src = pre[f].segs[a].src =>
           call.track[b].gen = pre[f].segs[a].gen + n

C18_WipeFrame ==
  \A k \in Calls("wipe") :
    /\ hist[k].outpost = hist[k].outpre
    /\ DOMAIN hist[k].post \subseteq DOMAIN hist[k].pre.files
    /\ \A f \in DOMAIN hist[k].post : hist[k].post[f] = hist[k].pre.files[f]
    /\ \A f \in DOMAIN hist[k].pre.files :
         ~IsFile(hist[k].pre.files[f]) => f \in DOMAIN hist[k].post
    /\ ~hist[k].pre.exists => hist[k].post = hist[k].pre.files

\* C19 (as claimed): the track has one segment per .wav that was in the
\* directory and no other: an .mp3 lying there without its .wav adds nothing.
C19_OnlyWavs ==
  \A k \in Calls("concat") :
    hist[k].res = "wrote" =>
      LET pre == hist[k].pre.files
      IN /\ Len(hist[k].track) = Cardinality(WavsOf(pre))
         /\ Range(Srcs(hist[k].track))
              = UNION {Range(Srcs(pre[f].segs)) : f \in WavsOf(pre)}

\* the chapters saved so far in the loop
Saved == (pos - 1) - Cardinality(failed)

\* C20: during the loop of a run on an empty temp/, the .wav files present
\* are exactly chapter_1 .. chapter_k, k the number of chapters saved so far,
\* and i = k + 1.
C20_DenseNumbering ==
  (pc = "loop" /\ CleanStart) =>
    /\ WavsOf(temp.files) = {ChapterWav(n) : n \in 1..Saved}
    /\ i = Saved + 1

\* C20 witness: the first chapter failed, the second was saved as
\* chapter_1.wav and i is 2
C20_Witness ==
  /\ pc = "loop" /\ CleanStart
  /\ pos = 3 /\ failed = {1}
  /\ WavsOf(temp.files) = {ChapterWav(1)}
  /\ i = 2
====
